---- MODULE Spec2Model ----
(***************************************************************************)
(* Model of rxnDB's data processor (src/rxnDB/data/processor.py):          *)
(* the phase lookups, the filters, the reaction grouping and the colours.  *)
(*                                                                         *)
(* A Python str is a sequence of one-character strings; a value that is    *)
(* not a str (None, NaN, a number) is a token with str = FALSE.  A cell of *)
(* the reactants/products column is a list of tokens, or a value that is   *)
(* not a list.  A DataFrame is the sequence of its rows; a frame returned  *)
(* by a filter is the set of positions of the rows it keeps (a boolean     *)
(* mask keeps the table order).                                            *)
(***************************************************************************)
EXTENDS Integers, Sequences, FiniteSets, TLC

\* Bounds of the colouring specification: rows of a table.
MaxCRows == 3

\* Bound of the strip_coefficients specification: tokens of a list.
MaxTokens == 4

VARIABLES df, columns, allow_empty, color_palette, pc, reactant_lookup,
          product_lookup, reaction_groups, color_map, group_method, result,
          yml, rv_toggle_data_type, rv_toggle_similar_reactions,
          rv_selected_table_rows, rv_selected_row_indices,
          rv_selected_phase_abbrevs, rv_group_display_modes, rv_ui_initialized

vars == <<df, columns, allow_empty, color_palette, pc, reactant_lookup,
          product_lookup, reaction_groups, color_map, group_method, result,
          yml, rv_toggle_data_type, rv_toggle_similar_reactions,
          rv_selected_table_rows, rv_selected_row_indices,
          rv_selected_phase_abbrevs, rv_group_display_modes, rv_ui_initialized>>

\* The reactive values of the app's server function.
rv == <<rv_toggle_data_type, rv_toggle_similar_reactions,
        rv_selected_table_rows, rv_selected_row_indices,
        rv_selected_phase_abbrevs, rv_group_display_modes, rv_ui_initialized>>

\* The constructor's arguments; no method assigns allow_empty or color_palette.
args == <<allow_empty, color_palette>>

----------------------------------------------------------------------------
(* Bounds *)

\* Longest table of the grouping specification.
MaxRows == 3

\* Longest table of the filter specification.
MaxQRows == 2

\* Longest phase list, id list or type list handed to a filter.
MaxArgs == 2

----------------------------------------------------------------------------
(* Values *)

Str(chars) == [str |-> TRUE, chars |-> chars]
NaN == [str |-> FALSE, chars |-> <<>>]
List(items) == [list |-> TRUE, items |-> items]
NotAList == [list |-> FALSE, items |-> <<>>]

Digits == {"0", "1", "2", "3", "4", "5", "6", "7", "8", "9"}
Whitespace == {" "}

ky == <<"k", "y">>
and_ == <<"a", "n", "d">>
sil == <<"s", "i", "l">>
c2ky == <<"2", "k", "y">>
c2_sil == <<"2", " ", "s", "i", "l">>
c10sil == <<"1", "0", "s", "i", "l">>
c2 == <<"2">>
h2o == <<"h", "2", "o">>
c2h2o == <<"2", "h", "2", "o">>
sio2 == <<"s", "i", "o", "2">>
c10sio2 == <<"1", "0", "s", "i", "o", "2">>
ky_ == <<"k", "y", " ">>
_ky == <<" ", "k", "y">>

Range(s) == {s[i] : i \in 1..Len(s)}

EmptyDict == [k \in {} |-> {}]

Put(d, k, v) == [x \in (DOMAIN d) \cup {k} |-> IF x = k THEN v ELSE d[x]]

\* dict.get(k, default)
Get(d, k, default) == IF k \in DOMAIN d THEN d[k] ELSE default

----------------------------------------------------------------------------
(* strip_coefficients *)

RECURSIVE DropWhileIn(_, _)
DropWhileIn(s, cls) ==
    IF s # <<>> /\ Head(s) \in cls THEN DropWhileIn(Tail(s), cls) ELSE s

RECURSIVE DropTrailingIn(_, _)
DropTrailingIn(s, cls) ==
    IF s # <<>> /\ s[Len(s)] \in cls
    THEN DropTrailingIn(SubSeq(s, 1, Len(s) - 1), cls)
    ELSE s

\* Mutant: the pattern is ^\d\s*, one digit.
ReSubCoefficient_one_digit(s) ==
    IF s # <<>> /\ Head(s) \in Digits
    THEN DropWhileIn(Tail(s), Whitespace)
    ELSE s

\* re.sub(r"^\d+\s*", "", phase): only a string that starts with a digit matches.
ReSubCoefficient(s) ==
    IF s # <<>> /\ Head(s) \in Digits
    THEN DropWhileIn(DropWhileIn(s, Digits), Whitespace)
    ELSE s

\* str.strip()
StrStrip(s) == DropTrailingIn(DropWhileIn(s, Whitespace), Whitespace)

RECURSIVE Cleaned(_)
Cleaned(phases) ==
    IF phases = <<>> THEN <<>>
    ELSE IF Head(phases).str
         THEN <<StrStrip(ReSubCoefficient(Head(phases).chars))>> \o Cleaned(Tail(phases))
         ELSE Cleaned(Tail(phases))

strip_coefficients(phases) == SelectSeq(Cleaned(phases), LAMBDA p : p # <<>>)

----------------------------------------------------------------------------
(* The tables the specifications start from *)

PHASE_BOUNDARY == "phase_boundary"
RXN_CALIBRATION == "rxn_calibration"

Row(id, reactants, products, type) ==
    [id |-> id, reactants |-> reactants, products |-> products, type |-> type]

\* One entry per reaction id: every row of an id carries the id's reactants,
\* products and type, as the loader writes them (one row per data point).
RxnPool ==
    { Row("R1", List(<<Str(ky)>>), List(<<Str(and_)>>), PHASE_BOUNDARY),
      Row("R2", List(<<Str(and_)>>), List(<<Str(sil)>>), PHASE_BOUNDARY),
      Row("R3", List(<<Str(and_)>>), List(<<Str(ky)>>), PHASE_BOUNDARY),
      Row("R4", List(<<Str(sil)>>), List(<<Str(sil)>>), RXN_CALIBRATION),
      Row("R5", List(<<Str(c2ky), Str(sil)>>), List(<<Str(and_), Str(c2_sil)>>),
          PHASE_BOUNDARY),
      Row("R6", List(<<Str(ky)>>), List(<<Str(and_)>>), RXN_CALIBRATION),
      Row("R7", List(<<Str(ky)>>), List(<<>>), PHASE_BOUNDARY),
      Row("R8", NotAList, List(<<Str(and_)>>), PHASE_BOUNDARY),
      Row("R9", List(<<NaN, Str(c10sil)>>), List(<<Str(ky)>>), RXN_CALIBRATION),
      Row("R10", List(<<Str(c2), Str(ky)>>), List(<<Str(and_)>>), PHASE_BOUNDARY) }

\* The reactions of the filter specification's tables.
QueryPool == {r \in RxnPool : r.id \in {"R1", "R2", "R5", "R8", "R9"}}
ColorPool == {r \in RxnPool : r.id \in {"R1", "R2", "R4", "R8"}}

Tables(pool, n) == UNION {[1..k -> pool] : k \in 0..n}

\* Arguments of the filters; "R0" is an id no table holds.
ArgPhases == {ky, and_, sil}
ArgTypes == {PHASE_BOUNDARY, RXN_CALIBRATION, "other"}
Lists(S) == UNION {[1..k -> S] : k \in 0..MaxArgs}
Methods == {"and", "or"}

\* Token lists handed to strip_coefficients: strings with and without a
\* coefficient, with whitespace around the name, empty before or after
\* stripping, and a value that is not a string.
TokenPool ==
    { Str(h2o), Str(c2h2o), Str(c10sio2), Str(<<>>), Str(c2), Str(c2_sil),
      Str(ky_), Str(_ky), NaN }

TokenLists == UNION {[1..k -> TokenPool] : k \in 0..MaxTokens}

----------------------------------------------------------------------------
(* _precompute_phase_info *)

\* df[col].apply(lambda x: x if isinstance(x, list) else [])
AsList(x) == IF x.list THEN x ELSE List(<<>>)

Listified(d) ==
    [i \in DOMAIN d |->
        [d[i] EXCEPT !.reactants = AsList(@), !.products = AsList(@)]]

\* The loop over one cell's tokens; strip_coefficients([t])[0] raises IndexError
\* when the stripped list is empty, and the loop stops there.
RECURSIVE AddPhases(_, _, _)

\* Mutant: the isinstance(reactant, str) test is left out, and a token that is
\* not a string gives an empty stripped list as well.
AddPhases_unchecked(acc, tokens, rxn_id) ==
    IF acc.raised \/ tokens = <<>> THEN acc
    ELSE LET stripped == strip_coefficients(<<Head(tokens)>>)
         IN  IF stripped = <<>> THEN [acc EXCEPT !.raised = TRUE]
             ELSE AddPhases([acc EXCEPT !.lookup =
                                Put(@, stripped[1],
                                    Get(acc.lookup, stripped[1], {}) \cup {rxn_id})],
                            Tail(tokens), rxn_id)

\* Mutant: the id replaces the ids the phase already has.
AddPhases_replacing(acc, tokens, rxn_id) ==
    IF acc.raised \/ tokens = <<>> THEN acc
    ELSE LET t == Head(tokens)
             stripped == strip_coefficients(<<t>>)
         IN  IF ~t.str THEN AddPhases(acc, Tail(tokens), rxn_id)
             ELSE IF stripped = <<>> THEN [acc EXCEPT !.raised = TRUE]
             ELSE AddPhases([acc EXCEPT !.lookup = Put(@, stripped[1], {rxn_id})],
                            Tail(tokens), rxn_id)

AddPhases(acc, tokens, rxn_id) ==
    IF acc.raised \/ tokens = <<>> THEN acc
    ELSE LET t == Head(tokens)
             stripped == strip_coefficients(<<t>>)
         IN  IF ~t.str THEN AddPhases(acc, Tail(tokens), rxn_id)
             ELSE IF stripped = <<>> THEN [acc EXCEPT !.raised = TRUE]
             ELSE LET clean == stripped[1]
                      next == IF clean # <<>>
                              THEN Put(acc.lookup, clean,
                                       Get(acc.lookup, clean, {}) \cup {rxn_id})
                              ELSE acc.lookup
                  IN  AddPhases([acc EXCEPT !.lookup = next], Tail(tokens), rxn_id)

RECURSIVE PrecomputeRows(_, _, _)
PrecomputeRows(d, i, acc) ==
    IF acc.raised \/ i > Len(d) THEN acc
    ELSE LET r == AddPhases([raised |-> FALSE, lookup |-> acc.reactant_lookup],
                            d[i].reactants.items, d[i].id)
             p == AddPhases([raised |-> FALSE, lookup |-> acc.product_lookup],
                            d[i].products.items, d[i].id)
         IN  IF r.raised
             THEN [acc EXCEPT !.raised = TRUE, !.reactant_lookup = r.lookup]
             ELSE PrecomputeRows(d, i + 1,
                     [raised |-> p.raised, reactant_lookup |-> r.lookup,
                      product_lookup |-> p.lookup])

precompute_phase_info(d) ==
    PrecomputeRows(Listified(d), 1,
        [raised |-> FALSE, reactant_lookup |-> EmptyDict, product_lookup |-> EmptyDict])

----------------------------------------------------------------------------
(* _get_ids_for_phases *)

\* Mutant: the loop returns after the first phase.
get_ids_for_phases_first(phases, lookup) ==
    IF phases = <<>> THEN {} ELSE Get(lookup, Head(phases), {})

RECURSIVE get_ids_for_phases(_, _)
get_ids_for_phases(phases, lookup) ==
    IF phases = <<>> THEN {}
    ELSE Get(lookup, Head(phases), {}) \cup get_ids_for_phases(Tail(phases), lookup)

----------------------------------------------------------------------------
(* _build_reaction_groups *)

\* df["id"].unique(): the ids in order of first appearance.
RECURSIVE UniqueIds(_, _)
UniqueIds(d, i) ==
    IF i > Len(d) THEN <<>>
    ELSE IF \E j \in 1..(i - 1) : d[j].id = d[i].id
         THEN UniqueIds(d, i + 1)
         ELSE <<d[i].id>> \o UniqueIds(d, i + 1)

\* df[df["id"] == rxn_id].iloc[0]
FirstRow(d, rxn_id) ==
    d[CHOOSE i \in 1..Len(d) :
        d[i].id = rxn_id /\ \A j \in 1..(i - 1) : d[j].id # rxn_id]

\* Mutant: an id already grouped is processed again.
AlreadyProcessed_never(rxn_id, processed_ids) == FALSE

\* if rxn_id in processed_ids: continue
AlreadyProcessed(rxn_id, processed_ids) == rxn_id \in processed_ids

\* Mutant: "and" is computed as "or".
GroupMatchingIds_always_or(f_reactant_ids, f_product_ids, r_reactant_ids, r_product_ids, method) ==
    (f_reactant_ids \cup f_product_ids) \cup (r_reactant_ids \cup r_product_ids)

\* Mutant: "and" leaves the reverse direction out.
GroupMatchingIds_forward_and(f_reactant_ids, f_product_ids, r_reactant_ids, r_product_ids, method) ==
    IF method = "and"
    THEN f_reactant_ids \cap f_product_ids
    ELSE (f_reactant_ids \cup f_product_ids) \cup (r_reactant_ids \cup r_product_ids)

GroupMatchingIds(f_reactant_ids, f_product_ids, r_reactant_ids, r_product_ids, method) ==
    IF method = "and"
    THEN (f_reactant_ids \cap f_product_ids) \cup (r_reactant_ids \cap r_product_ids)
    ELSE (f_reactant_ids \cup f_product_ids) \cup (r_reactant_ids \cup r_product_ids)

\* One pass of the first loop's body; st = [groups, group_counter, processed_ids].
GroupStep(d, rl, pl, method, rxn_id, st) ==
    IF AlreadyProcessed(rxn_id, st.processed_ids) THEN st
    ELSE LET row == FirstRow(d, rxn_id)
         IN  IF ~row.reactants.list \/ ~row.products.list THEN st
             ELSE LET reactants == strip_coefficients(row.reactants.items)
                      products == strip_coefficients(row.products.items)
                      matching_ids ==
                          GroupMatchingIds(get_ids_for_phases(reactants, rl),
                                           get_ids_for_phases(products, pl),
                                           get_ids_for_phases(reactants, pl),
                                           get_ids_for_phases(products, rl),
                                           method)
                      members == matching_ids \cup {rxn_id}
                  IN  IF reactants = <<>> \/ products = <<>> THEN st
                      ELSE IF matching_ids = {} THEN st
                      ELSE [groups |->
                                [x \in (DOMAIN st.groups) \cup members |->
                                    IF x \in members THEN st.group_counter
                                    ELSE st.groups[x]],
                            group_counter |-> st.group_counter + 1,
                            processed_ids |-> st.processed_ids \cup members]

RECURSIVE GroupSweep(_, _, _, _, _, _)
GroupSweep(d, rl, pl, method, ids, st) ==
    IF ids = <<>> THEN st
    ELSE GroupSweep(d, rl, pl, method, Tail(ids),
                    GroupStep(d, rl, pl, method, Head(ids), st))

\* The second loop: every id not processed gets a group of its own.
RECURSIVE SingletonSweep(_, _)

\* Mutant: the second loop does not advance the group counter.
SingletonSweep_counter_kept(ids, st) ==
    [st EXCEPT !.groups =
        [x \in (DOMAIN st.groups) \cup Range(ids) |->
            IF x \in st.processed_ids THEN st.groups[x] ELSE st.group_counter]]

SingletonSweep(ids, st) ==
    IF ids = <<>> THEN st
    ELSE IF Head(ids) \notin st.processed_ids
         THEN SingletonSweep(Tail(ids),
                  [st EXCEPT !.groups = Put(@, Head(ids), st.group_counter),
                             !.group_counter = @ + 1])
         ELSE SingletonSweep(Tail(ids), st)

build_reaction_groups(d, rl, pl, method) ==
    SingletonSweep(UniqueIds(d, 1),
        GroupSweep(d, rl, pl, method, UniqueIds(d, 1),
            [groups |-> EmptyDict, group_counter |-> 0, processed_ids |-> {}])).groups

----------------------------------------------------------------------------
(* _build_color_map, get_color_for_reaction *)

\* plotly.express.colors.qualitative.Set1, the default color_palette
Set1 ==
    << "rgb(228,26,28)", "rgb(55,126,184)", "rgb(77,175,74)", "rgb(152,78,163)",
       "rgb(255,127,0)", "rgb(255,255,51)", "rgb(166,86,40)", "rgb(247,129,191)",
       "rgb(153,153,153)" >>

\* plotly.express.colors.get_colorscale("Bluered"): the colors of a named
\* colorscale, here one of two colors
Bluered == << "rgb(0,0,255)", "rgb(255,0,0)" >>

Qualitative == {"Set1"}
NamedColorscales == {"bluered"}

\* str.lower() of the palette names used
Lower(name) == IF name = "Bluered" THEN "bluered" ELSE name

get_color_palette ==
    IF color_palette \in Qualitative THEN Set1
    ELSE IF Lower(color_palette) \in NamedColorscales THEN Bluered
    ELSE Set1

BLACK == "#000000"

DigitChar(n) == <<"0", "1", "2", "3", "4", "5", "6", "7", "8", "9">>[n + 1]

\* str(group) of a non-negative int
RECURSIVE IntStr(_)
IntStr(n) == IF n < 10 THEN <<DigitChar(n)>> ELSE IntStr(n \div 10) \o <<DigitChar(n % 10)>>

\* sorted(unique_groups)
RECURSIVE Sorted(_)
Sorted(S) ==
    IF S = {} THEN <<>>
    ELSE LET m == CHOOSE x \in S : \A y \in S : x <= y
         IN  <<m>> \o Sorted(S \ {m})

\* The groups the color map is built from: built first when there are none.
GroupsForColorMap(d, rl, pl, groups) ==
    IF DOMAIN groups = {} THEN build_reaction_groups(d, rl, pl, "and") ELSE groups

\* Mutant: past the palette's end the last color is used, the index does not
\* wrap around.
build_color_map_clamped(groups) ==
    LET unique_groups == {groups[x] : x \in DOMAIN groups}
        order == Sorted(unique_groups)
        palette == get_color_palette
    IN  [k \in {IntStr(g) : g \in unique_groups} |->
            LET i == (CHOOSE j \in 1..Len(order) : IntStr(order[j]) = k) - 1
            IN  palette[(IF i < Len(palette) THEN i ELSE Len(palette) - 1) + 1]]

build_color_map(groups) ==
    LET unique_groups == {groups[x] : x \in DOMAIN groups}
        order == Sorted(unique_groups)
        palette == get_color_palette
    IN  [k \in {IntStr(g) : g \in unique_groups} |->
            LET i == (CHOOSE j \in 1..Len(order) : IntStr(order[j]) = k) - 1
            IN  palette[(i % Len(palette)) + 1]]

\* Mutant: the membership test is left out and an unknown id raises.
get_color_for_reaction_unguarded(groups, colors, reaction_id) ==
    IF reaction_id \notin DOMAIN groups THEN "KeyError"
    ELSE Get(colors, IntStr(groups[reaction_id]), BLACK)

get_color_for_reaction(groups, colors, reaction_id) ==
    IF reaction_id \notin DOMAIN groups THEN BLACK
    ELSE Get(colors, IntStr(groups[reaction_id]), BLACK)

\* The two columns get_colors_for_filtered_df computes, row by row, from the
\* frame's id column.
AnnotatedRows(groups, colors, ids) ==
    [i \in DOMAIN ids |->
        [id |-> ids[i],
         rxn_group |-> Get(groups, ids[i], -1),
         rxn_color_key |-> get_color_for_reaction(groups, colors, ids[i])]]

\* Mutant: the columns are assigned to filtered_df itself, without copy().
get_colors_for_filtered_df_in_place(groups, colors, ids) ==
    [returned |-> AnnotatedRows(groups, colors, ids),
     added_to_input |-> <<"rxn_group", "rxn_color_key">>]

\* get_colors_for_filtered_df(filtered_df), the frame given by its id column:
\* the frame returned, and the columns the call adds to filtered_df itself
\* (none: the columns are assigned to a copy).
get_colors_for_filtered_df(groups, colors, ids) ==
    [returned |-> AnnotatedRows(groups, colors, ids),
     added_to_input |-> <<>>]

----------------------------------------------------------------------------
(* The filters.  A returned frame is [rows, original]: the positions of the  *)
(* rows it holds, and whether it is the object _original_df itself.          *)

OriginalFrame(d) == [rows |-> DOMAIN d, original |-> TRUE]

\* pd.DataFrame(columns=self._original_df.columns)
EmptyFrame == [rows |-> {}, original |-> FALSE]

\* df[df[col].isin(values)]
IdIsIn(d, values) == [rows |-> {i \in DOMAIN d : d[i].id \in values}, original |-> FALSE]

TypeIsIn(d, values) == [rows |-> {i \in DOMAIN d : d[i].type \in values}, original |-> FALSE]

\* Mutant: only the first id is looked for.
filter_by_ids_first(d, ids) ==
    IF ids = <<>> THEN OriginalFrame(d) ELSE IdIsIn(d, {Head(ids)})

filter_by_ids(d, ids) ==
    IF ids = <<>> THEN OriginalFrame(d) ELSE IdIsIn(d, Range(ids))

filter_by_reactants(d, rl, phases) ==
    IF phases = <<>> THEN OriginalFrame(d)
    ELSE LET matching_ids == get_ids_for_phases(phases, rl)
         IN  IF matching_ids = {} THEN EmptyFrame ELSE IdIsIn(d, matching_ids)

filter_by_products(d, pl, phases) ==
    IF phases = <<>> THEN OriginalFrame(d)
    ELSE LET matching_ids == get_ids_for_phases(phases, pl)
         IN  IF matching_ids = {} THEN EmptyFrame ELSE IdIsIn(d, matching_ids)

\* Mutant: "or" leaves the reverse direction out.
FilterMatchingIds_forward_or(f_reactant_ids, f_product_ids, r_reactant_ids, r_product_ids, method) ==
    IF method = "and"
    THEN (f_reactant_ids \cap f_product_ids) \cup (r_reactant_ids \cap r_product_ids)
    ELSE f_reactant_ids \cup f_product_ids

FilterMatchingIds(f_reactant_ids, f_product_ids, r_reactant_ids, r_product_ids, method) ==
    IF method = "and"
    THEN (f_reactant_ids \cap f_product_ids) \cup (r_reactant_ids \cap r_product_ids)
    ELSE ((f_reactant_ids \cup f_product_ids) \cup r_reactant_ids) \cup r_product_ids

\* Mutant: the two early returns on an empty forward set are left out.
FilterBothGiven_no_short_circuit(d, rl, pl, reactants, products, method) ==
    LET matching_ids == FilterMatchingIds(get_ids_for_phases(reactants, rl),
                                          get_ids_for_phases(products, pl),
                                          get_ids_for_phases(reactants, pl),
                                          get_ids_for_phases(products, rl), method)
    IN  IF matching_ids = {} THEN EmptyFrame ELSE IdIsIn(d, matching_ids)

\* The branch taken when both lists are given.
FilterBothGiven(d, rl, pl, reactants, products, method) ==
    LET f_reactant_ids == get_ids_for_phases(reactants, rl)
        f_product_ids == get_ids_for_phases(products, pl)
        r_reactant_ids == get_ids_for_phases(reactants, pl)
        r_product_ids == get_ids_for_phases(products, rl)
        matching_ids == FilterMatchingIds(f_reactant_ids, f_product_ids,
                                          r_reactant_ids, r_product_ids, method)
    IN  IF f_reactant_ids = {} THEN EmptyFrame
        ELSE IF f_product_ids = {} THEN EmptyFrame
        ELSE IF matching_ids = {} THEN EmptyFrame
        ELSE IdIsIn(d, matching_ids)

\* Mutant: a single given list is matched in both directions instead of being
\* handed to the single-sided filter.
filter_by_reactants_and_products_both_ways(d, rl, pl, reactants, products, method) ==
    IF reactants = <<>> /\ products = <<>> THEN OriginalFrame(d)
    ELSE IF reactants # <<>> /\ products = <<>>
         THEN IdIsIn(d, get_ids_for_phases(reactants, rl) \cup get_ids_for_phases(reactants, pl))
    ELSE IF reactants = <<>> /\ products # <<>>
         THEN IdIsIn(d, get_ids_for_phases(products, pl) \cup get_ids_for_phases(products, rl))
    ELSE FilterBothGiven(d, rl, pl, reactants, products, method)

filter_by_reactants_and_products(d, rl, pl, reactants, products, method) ==
    IF reactants = <<>> /\ products = <<>> THEN OriginalFrame(d)
    ELSE IF reactants # <<>> /\ products = <<>> THEN filter_by_reactants(d, rl, reactants)
    ELSE IF reactants = <<>> /\ products # <<>> THEN filter_by_products(d, pl, products)
    ELSE IF reactants # <<>> /\ products # <<>>
         THEN FilterBothGiven(d, rl, pl, reactants, products, method)
    ELSE EmptyFrame

\* Mutant: the guard on an empty list is missing.
filter_by_type_unguarded(d, types) == TypeIsIn(d, Range(types))

filter_by_type(d, types) ==
    IF types = <<>> THEN OriginalFrame(d) ELSE TypeIsIn(d, Range(types))

----------------------------------------------------------------------------
(* get_phases_for_ids *)

\* The characters of the phase names in the order of their code points, the
\* order sorted() compares strings by.
CodePointOrder ==
    << " ", "0", "1", "2", "3", "4", "5", "6", "7", "8", "9",
       "a", "d", "h", "i", "k", "l", "n", "o", "s", "y" >>

Ord(c) == CHOOSE i \in DOMAIN CodePointOrder : CodePointOrder[i] = c

\* a < b for two Python strings
RECURSIVE StrLess(_, _)
StrLess(a, b) ==
    IF b = <<>> THEN FALSE
    ELSE IF a = <<>> THEN TRUE
    ELSE IF Head(a) = Head(b) THEN StrLess(Tail(a), Tail(b))
    ELSE Ord(Head(a)) < Ord(Head(b))

\* sorted(list(set(...))) of strings
RECURSIVE SortedStrs(_)
SortedStrs(S) ==
    IF S = {} THEN <<>>
    ELSE LET m == CHOOSE x \in S : \A y \in S \ {x} : StrLess(x, y)
         IN  <<m>> \o SortedStrs(S \ {m})

\* Series.explode(): a list's elements one by one, NaN for an empty list; a
\* value that is not a list stays as it is.
RECURSIVE Explode(_, _)
Explode(rows, col) ==
    IF rows = <<>> THEN <<>>
    ELSE LET x == Head(rows)[col]
         IN  (IF x.list /\ x.items # <<>> THEN x.items ELSE <<NaN>>)
                 \o Explode(Tail(rows), col)

\* Series.dropna()
DropNa(tokens) == SelectSeq(tokens, LAMBDA t : t # NaN)

\* Series.unique(): the first occurrence of each value, in order.
RECURSIVE Unique(_)
Unique(tokens) ==
    IF tokens = <<>> THEN <<>>
    ELSE LET front == Unique(SubSeq(tokens, 1, Len(tokens) - 1))
             last == tokens[Len(tokens)]
         IN  IF last \in Range(front) THEN front ELSE Append(front, last)

\* Mutant: the phases are not passed through strip_coefficients.
get_phases_for_ids_unstripped(d, ids) ==
    IF ids = <<>> THEN << <<>>, <<>> >>
    ELSE LET subset_df == SelectSeq(d, LAMBDA r : r.id \in Range(ids))
             all_reactants == Unique(DropNa(Explode(subset_df, "reactants")))
             all_products == Unique(DropNa(Explode(subset_df, "products")))
         IN  << SortedStrs({t.chars : t \in Range(all_reactants)}),
                SortedStrs({t.chars : t \in Range(all_products)}) >>

get_phases_for_ids(d, ids) ==
    IF ids = <<>> THEN << <<>>, <<>> >>
    ELSE LET subset_df == SelectSeq(d, LAMBDA r : r.id \in Range(ids))
             all_reactants == Unique(DropNa(Explode(subset_df, "reactants")))
             all_products == Unique(DropNa(Explode(subset_df, "products")))
         IN  << SortedStrs(Range(strip_coefficients(all_reactants))),
                SortedStrs(Range(strip_coefficients(all_products))) >>

----------------------------------------------------------------------------
(* State *)

\* What the last call returned: the call, its arguments, and the frame or the
\* colour it gave back.
NoResult ==
    [op |-> "none", a |-> <<>>, b |-> <<>>, method |-> "", rows |-> {},
     original |-> FALSE, color |-> "", lists |-> <<>>]

FrameResult(op, a, b, method, frame) ==
    [op |-> op, a |-> a, b |-> b, method |-> method, rows |-> frame.rows,
     original |-> frame.original, color |-> "", lists |-> <<>>]

ColorResult(op, id, color) ==
    [op |-> op, a |-> <<id>>, b |-> <<>>, method |-> "", rows |-> {},
     original |-> FALSE, color |-> color, lists |-> <<>>]

\* A call that returns lists or a new frame: a is the argument, lists what is
\* returned, original whether the argument is the processor's own table.
ListResult(op, a, original, lists) ==
    [op |-> op, a |-> a, b |-> <<>>, method |-> "", rows |-> {},
     original |-> original, color |-> "", lists |-> lists]

required_cols == <<"id", "reactants", "products", "type", "plot_type", "rxn", "ref">>

\* missing = [col for col in required_cols if col not in self.df.columns]
MissingColumns(cols) == SelectSeq(required_cols, LAMBDA col : col \notin cols)

\* The column sets of the tables handed to the constructor: every required
\* column, or a table that lacks some of them.
ColumnSets ==
    { Range(required_cols),
      Range(required_cols) \ {"plot_type"},
      Range(required_cols) \ {"id", "ref"} }

\* The dataclass fields as the generated __init__ leaves them, before
\* __post_init__ runs.  allow_empty is read only for a table without rows, and
\* the columns are tested whatever the rows: both are varied for tables of at
\* most one row.
\* Python's False and None, as the reactive values hold them; a selection of
\* table rows is None or a tuple of positions.
False == "False"
None == [none |-> TRUE, indices |-> <<>>]
Indices(t) == [none |-> FALSE, indices |-> t]

\* The reactive values as server() creates them.
ServerStart ==
    /\ rv_toggle_data_type = "all"
    /\ rv_toggle_similar_reactions = False
    /\ rv_selected_table_rows = <<>>
    /\ rv_selected_row_indices = None
    /\ rv_selected_phase_abbrevs = {}
    /\ rv_group_display_modes = EmptyDict
    /\ rv_ui_initialized = FALSE

InitWith(tables, flags, palettes) ==
    /\ df \in tables
    /\ columns \in (IF Len(df) <= 1 THEN ColumnSets ELSE {Range(required_cols)})
    /\ allow_empty \in (IF Len(df) <= 1 THEN flags ELSE {FALSE})
    /\ color_palette \in palettes
    /\ pc = "new"
    /\ reactant_lookup = EmptyDict
    /\ product_lookup = EmptyDict
    /\ reaction_groups = EmptyDict
    /\ color_map = EmptyDict
    /\ group_method = ""
    /\ result = NoResult
    /\ yml = EmptyDict
    /\ ServerStart

Init == InitWith(Tables(RxnPool, MaxRows), BOOLEAN, {"Set1"})

InitQuery == InitWith(Tables(QueryPool, MaxQRows), BOOLEAN, {"Set1"})

Palettes == {"Set1", "Bluered"}

InitColor == InitWith(Tables(ColorPool, MaxCRows), BOOLEAN, Palettes)

\* The method of the grouping the color map is built from: _build_color_map
\* builds the groups with the default method when there are none.
MethodForColorMap(groups, method) == IF DOMAIN groups = {} THEN "and" ELSE method

\* __post_init__; df is a DataFrame.
PostInit ==
    /\ pc = "new"
    /\ UNCHANGED <<columns, args, yml, rv, result>>
    /\ IF ~allow_empty /\ df = <<>>
       THEN /\ pc' = "ValueError"
            /\ UNCHANGED <<df, reactant_lookup, product_lookup, reaction_groups,
                           color_map, group_method>>
       ELSE IF MissingColumns(columns) # <<>>
       THEN /\ pc' = "ValueError"
            /\ UNCHANGED <<df, reactant_lookup, product_lookup, reaction_groups,
                           color_map, group_method>>
       ELSE LET pre == precompute_phase_info(df)
                groups == GroupsForColorMap(Listified(df), pre.reactant_lookup,
                                            pre.product_lookup, reaction_groups)
            IN  /\ df' = Listified(df)
                /\ reactant_lookup' = pre.reactant_lookup
                /\ product_lookup' = pre.product_lookup
                /\ IF pre.raised
                   THEN /\ pc' = "IndexError"
                        /\ UNCHANGED <<reaction_groups, color_map, group_method>>
                   ELSE /\ pc' = "ready"
                        /\ reaction_groups' = groups
                        /\ group_method' = MethodForColorMap(reaction_groups, group_method)
                        /\ color_map' = build_color_map(groups)

TableIds == {df[i].id : i \in DOMAIN df}

\* set(self._reaction_groups.values())
GroupsInUse == {reaction_groups[x] : x \in DOMAIN reaction_groups}
ArgIds == TableIds \cup {"R0"}

\* The processor is constructed and no call is under way.
Idle == pc = "ready" /\ result = NoResult

\* Mutant: the group counter is kept from one build to the next.
BuildReactionGroups_counter_kept ==
    /\ Idle
    /\ \E method \in Methods :
          LET groups == build_reaction_groups(df, reactant_lookup, product_lookup, method)
          IN  /\ reaction_groups' =
                    [x \in DOMAIN groups |-> groups[x] + Cardinality(GroupsInUse)]
              /\ group_method' = method
    /\ UNCHANGED <<df, columns, args, yml, rv, pc, reactant_lookup, product_lookup, color_map, result>>

\* _build_reaction_groups(method)
BuildReactionGroups ==
    /\ Idle
    /\ \E method \in Methods :
          /\ reaction_groups' =
                build_reaction_groups(df, reactant_lookup, product_lookup, method)
          /\ group_method' = method
    /\ UNCHANGED <<df, columns, args, yml, rv, pc, reactant_lookup, product_lookup, color_map, result>>

\* _build_color_map()
BuildColorMap ==
    /\ Idle
    /\ LET groups == GroupsForColorMap(df, reactant_lookup, product_lookup, reaction_groups)
       IN  /\ reaction_groups' = groups
           /\ color_map' = build_color_map(groups)
    /\ group_method' = MethodForColorMap(reaction_groups, group_method)
    /\ UNCHANGED <<df, columns, args, yml, rv, pc, reactant_lookup, product_lookup, result>>

GetColorForReaction ==
    /\ Idle
    /\ \E reaction_id \in ArgIds :
          result' = ColorResult("get_color_for_reaction", reaction_id,
                        get_color_for_reaction(reaction_groups, color_map, reaction_id))
    /\ UNCHANGED <<df, columns, args, yml, rv, pc, reactant_lookup, product_lookup,
                   reaction_groups, color_map, group_method>>

FilterByIds ==
    /\ Idle
    /\ \E ids \in Lists(ArgIds) :
          result' = FrameResult("filter_by_ids", ids, <<>>, "", filter_by_ids(df, ids))
    /\ UNCHANGED <<df, columns, args, yml, rv, pc, reactant_lookup, product_lookup,
                   reaction_groups, color_map, group_method>>

FilterByReactants ==
    /\ Idle
    /\ \E phases \in Lists(ArgPhases) :
          result' = FrameResult("filter_by_reactants", phases, <<>>, "",
                        filter_by_reactants(df, reactant_lookup, phases))
    /\ UNCHANGED <<df, columns, args, yml, rv, pc, reactant_lookup, product_lookup,
                   reaction_groups, color_map, group_method>>

FilterByProducts ==
    /\ Idle
    /\ \E phases \in Lists(ArgPhases) :
          result' = FrameResult("filter_by_products", <<>>, phases, "",
                        filter_by_products(df, product_lookup, phases))
    /\ UNCHANGED <<df, columns, args, yml, rv, pc, reactant_lookup, product_lookup,
                   reaction_groups, color_map, group_method>>

FilterByReactantsAndProducts ==
    /\ Idle
    /\ \E reactants \in Lists(ArgPhases), products \in Lists(ArgPhases), method \in Methods :
          result' = FrameResult("filter_by_reactants_and_products", reactants,
                        products, method,
                        filter_by_reactants_and_products(df, reactant_lookup,
                            product_lookup, reactants, products, method))
    /\ UNCHANGED <<df, columns, args, yml, rv, pc, reactant_lookup, product_lookup,
                   reaction_groups, color_map, group_method>>

FilterByType ==
    /\ Idle
    /\ \E types \in Lists(ArgTypes) :
          result' = FrameResult("filter_by_type", types, <<>>, "", filter_by_type(df, types))
    /\ UNCHANGED <<df, columns, args, yml, rv, pc, reactant_lookup, product_lookup,
                   reaction_groups, color_map, group_method>>

\* The frames handed to get_colors_for_filtered_df: the processor's own table,
\* or another frame, given by its id column.
IdColumn(d) == [i \in DOMAIN d |-> d[i].id]

FrameArgs ==
    {[ids |-> IdColumn(df), original |-> TRUE]}
        \cup {[ids |-> f, original |-> FALSE] : f \in Lists(ArgIds)}

\* get_colors_for_filtered_df(filtered_df); result.b holds the columns the
\* call added to filtered_df.
GetColorsForFilteredDf ==
    /\ Idle
    /\ \E filtered_df \in FrameArgs :
          LET out == get_colors_for_filtered_df(reaction_groups, color_map,
                                                filtered_df.ids)
          IN  /\ result' = [ListResult("get_colors_for_filtered_df", filtered_df.ids,
                                        filtered_df.original, out.returned)
                                EXCEPT !.b = out.added_to_input]
              /\ columns' = IF filtered_df.original
                            THEN columns \cup Range(out.added_to_input)
                            ELSE columns
    /\ UNCHANGED <<df, args, yml, rv, pc, reactant_lookup, product_lookup,
                   reaction_groups, color_map, group_method>>

\* get_phases_for_ids(ids)
GetPhasesForIds ==
    /\ Idle
    /\ \E ids \in Lists(ArgIds) :
          result' = ListResult("get_phases_for_ids", ids, FALSE,
                               get_phases_for_ids(df, ids))
    /\ UNCHANGED <<df, columns, args, yml, rv, pc, reactant_lookup, product_lookup,
                   reaction_groups, color_map, group_method>>

\* RxnDBProcessor.strip_coefficients(phases), a static method: the call under
\* way, with its argument in result.a, is carried out.
StripCoefficients ==
    /\ result.op = "call strip_coefficients"
    /\ result' = ListResult("strip_coefficients", result.a, FALSE,
                            strip_coefficients(result.a))
    /\ UNCHANGED <<df, columns, args, yml, rv, pc, reactant_lookup, product_lookup,
                   reaction_groups, color_map, group_method>>

\* The caller takes the value the last call returned; calls are synchronous,
\* one at a time.
Return ==
    /\ result # NoResult
    /\ result.op # "call strip_coefficients"
    /\ result' = NoResult
    /\ UNCHANGED <<df, columns, args, yml, rv, pc, reactant_lookup, product_lookup,
                   reaction_groups, color_map, group_method>>

\* Construction, regrouping and colour queries.
Next ==
    \/ PostInit
    \/ BuildReactionGroups
    \/ BuildColorMap
    \/ GetColorForReaction
    \/ Return

Spec == Init /\ [][Next]_vars

\* Construction and the filters.
NextQuery ==
    \/ PostInit
    \/ FilterByIds
    \/ FilterByReactants
    \/ FilterByProducts
    \/ FilterByReactantsAndProducts
    \/ FilterByType
    \/ GetPhasesForIds
    \/ Return

SpecQuery == InitQuery /\ [][NextQuery]_vars

\* Construction, regrouping and the colors, with a palette of nine colors and
\* one of two.
NextColor ==
    \/ PostInit
    \/ BuildReactionGroups
    \/ BuildColorMap
    \/ GetColorForReaction
    \/ GetColorsForFilteredDf
    \/ Return

SpecColor == InitColor /\ [][NextColor]_vars

\* The static method strip_coefficients, called on a list of tokens; no
\* processor is constructed.
InitStrip ==
    /\ df = <<>>
    /\ columns = Range(required_cols)
    /\ allow_empty = FALSE
    /\ color_palette = "Set1"
    /\ pc = "static"
    /\ reactant_lookup = EmptyDict
    /\ product_lookup = EmptyDict
    /\ reaction_groups = EmptyDict
    /\ color_map = EmptyDict
    /\ group_method = ""
    /\ result \in {ListResult("call strip_coefficients", phases, FALSE, <<>>) :
                        phases \in TokenLists}
    /\ yml = EmptyDict
    /\ ServerStart

NextStrip ==
    \/ StripCoefficients
    \/ Return

SpecStrip == InitStrip /\ [][NextStrip]_vars

----------------------------------------------------------------------------
(* What the claims speak of, read off the table itself *)

Ready == pc = "ready"

\* The coefficient-stripped phases of a row's reactants and products.
ReactantPhases(r) ==
    IF r.reactants.list THEN Range(strip_coefficients(r.reactants.items)) ELSE {}

ProductPhases(r) ==
    IF r.products.list THEN Range(strip_coefficients(r.products.items)) ELSE {}

RowsOfIds(S) == {i \in DOMAIN df : df[i].id \in S}

IdsWithReactantIn(P) == {df[i].id : i \in {j \in DOMAIN df : ReactantPhases(df[j]) \cap P # {}}}

IdsWithProductIn(P) == {df[i].id : i \in {j \in DOMAIN df : ProductPhases(df[j]) \cap P # {}}}

RowOfId(x) == df[CHOOSE i \in DOMAIN df : df[i].id = x]

Combined == result.op = "filter_by_reactants_and_products"

ColorOf(x) == get_color_for_reaction(reaction_groups, color_map, x)

\* Two reactions match under "and" when they share a reactant and a product,
\* or when each one's reactants meet the other's products; under "or" when
\* they share a phase on any side.
MatchEachOther(x, y, method) ==
    LET Rx == ReactantPhases(RowOfId(x))
        Px == ProductPhases(RowOfId(x))
        Ry == ReactantPhases(RowOfId(y))
        Py == ProductPhases(RowOfId(y))
    IN  IF method = "and"
        THEN \/ Rx \cap Ry # {} /\ Px \cap Py # {}
             \/ Rx \cap Py # {} /\ Px \cap Ry # {}
        ELSE (Rx \cup Px) \cap (Ry \cup Py) # {}

\* The rank of group g among the group ids in use, in ascending order.
Rank(g) == Cardinality({h \in GroupsInUse : h < g})

\* palette[i mod len(palette)], the palette being indexed from 0 in the code.
PaletteColor(i) == get_color_palette[(i % Len(get_color_palette)) + 1]

\* Each group has exactly one color, the palette's color of its rank, and
\* get_color_for_reaction returns it for every reaction of the group.
ColorsByRank ==
    /\ DOMAIN color_map = {IntStr(g) : g \in GroupsInUse}
    /\ \A g \in GroupsInUse : color_map[IntStr(g)] = PaletteColor(Rank(g))
    /\ \A x \in TableIds : ColorOf(x) = PaletteColor(Rank(reaction_groups[x]))

\* None of the reaction's phases occurs, on either side, in another reaction.
Isolated(x) ==
    \A y \in TableIds \ {x} :
        (ReactantPhases(RowOfId(x)) \cup ProductPhases(RowOfId(x)))
            \cap (ReactantPhases(RowOfId(y)) \cup ProductPhases(RowOfId(y))) = {}

----------------------------------------------------------------------------
(* Claims *)

\* C1: filter_by_reactants(P) with P non-empty returns exactly the rows whose
\* coefficient-stripped reactant list holds a phase of P, filter_by_products(P)
\* exactly the rows whose stripped product list does; no match gives an empty
\* table.
C1_FilterBySide ==
    /\ (result.op = "filter_by_reactants" /\ result.a # <<>>) =>
          result.rows = {i \in DOMAIN df : ReactantPhases(df[i]) \cap Range(result.a) # {}}
    /\ (result.op = "filter_by_products" /\ result.b # <<>>) =>
          result.rows = {i \in DOMAIN df : ProductPhases(df[i]) \cap Range(result.b) # {}}

\* A two-phase request matched through a coefficient-prefixed token, keeping
\* some rows and leaving others out.
C1_Witness ==
    /\ result.op = "filter_by_reactants"
    /\ Len(result.a) = 2
    /\ result.rows # {}
    /\ result.rows # DOMAIN df
    /\ \E i \in result.rows : Str(c2ky) \in Range(df[i].reactants.items)

\* C2: every filter called with empty input returns all the rows of the
\* original table.
C2_EmptyMeansUnrestricted ==
    (/\ result.op \in {"filter_by_ids", "filter_by_reactants", "filter_by_products",
                       "filter_by_type", "filter_by_reactants_and_products"}
     /\ result.a = <<>>
     /\ result.b = <<>>) => (result.rows = DOMAIN df /\ result.original)

C2_Witness ==
    /\ Combined
    /\ result.a = <<>>
    /\ result.b = <<>>
    /\ result.method = "or"
    /\ Len(df) = 2

\* C3: filter_by_ids(S) with S non-empty returns exactly the rows whose id is
\* in S; an id of S the table does not hold adds nothing.
C3_FilterByIds ==
    (result.op = "filter_by_ids" /\ result.a # <<>>) =>
        result.rows = {i \in DOMAIN df : df[i].id \in Range(result.a)}

C3_Witness ==
    /\ result.op = "filter_by_ids"
    /\ Len(result.a) = 2
    /\ "R0" \in Range(result.a)
    /\ result.rows # {}
    /\ result.rows # DOMAIN df

\* C4: with both lists non-empty and method "and" the combined filter returns
\* exactly the rows whose id is in forward \cup reverse.
C4_AndIsForwardUnionReverse ==
    (Combined /\ result.a # <<>> /\ result.b # <<>> /\ result.method = "and") =>
        LET R == Range(result.a)
            Pr == Range(result.b)
            forward == IdsWithReactantIn(R) \cap IdsWithProductIn(Pr)
            reverse == IdsWithProductIn(R) \cap IdsWithReactantIn(Pr)
        IN  result.rows = RowsOfIds(forward \cup reverse)

\* C5: with both lists non-empty and method "or" the combined filter returns
\* exactly the rows whose id is in the union of the four match sets.
C5_OrIsUnionOfFour ==
    (Combined /\ result.a # <<>> /\ result.b # <<>> /\ result.method = "or") =>
        LET R == Range(result.a)
            Pr == Range(result.b)
        IN  result.rows = RowsOfIds(IdsWithReactantIn(R) \cup IdsWithProductIn(Pr)
                                    \cup IdsWithProductIn(R) \cup IdsWithReactantIn(Pr))

\* C6: for all R and Pr, the rows the combined filter returns with method "and"
\* are among the rows it returns with method "or".
C6_AndSubsetOfOr ==
    (Combined /\ result.method = "and") =>
        result.rows \subseteq
            filter_by_reactants_and_products(df, reactant_lookup, product_lookup,
                                             result.a, result.b, "or").rows

\* A reverse-direction match returned under "and".
C6_Witness ==
    /\ Combined
    /\ result.method = "and"
    /\ result.a # <<>>
    /\ result.b # <<>>
    /\ \E i \in result.rows :
          /\ ReactantPhases(df[i]) \cap Range(result.a) = {}
          /\ ProductPhases(df[i]) \cap Range(result.b) = {}

\* C7: with exactly one list non-empty the combined filter returns, for both
\* methods, the rows of the single-sided filter, and adds no reverse-direction
\* match.
C7_OneSidedDegrades ==
    /\ (Combined /\ result.a # <<>> /\ result.b = <<>>) =>
          /\ result.rows = filter_by_reactants(df, reactant_lookup, result.a).rows
          /\ result.rows = RowsOfIds(IdsWithReactantIn(Range(result.a)))
    /\ (Combined /\ result.a = <<>> /\ result.b # <<>>) =>
          /\ result.rows = filter_by_products(df, product_lookup, result.b).rows
          /\ result.rows = RowsOfIds(IdsWithProductIn(Range(result.b)))

\* A one-sided request that leaves out a row a reverse-direction match would add.
C7_Witness ==
    /\ Combined
    /\ result.a # <<>>
    /\ result.b = <<>>
    /\ result.rows # {}
    /\ \E i \in DOMAIN df :
          i \notin result.rows /\ ProductPhases(df[i]) \cap Range(result.a) # {}

\* The table R1: ky => and, R2: and => sil, grouped with method "and".
C8_Table == Ready /\ TableIds = {"R1", "R2"} /\ group_method = "and"

\* C8 as stated: on that table, method "and" puts R1 and R2 in one group and
\* gives them the same color key.
C8_SameGroupSameColor ==
    C8_Table =>
        /\ reaction_groups["R1"] = reaction_groups["R2"]
        /\ ColorOf("R1") = ColorOf("R2")

\* C8 amended: on that table, method "and" puts R1 and R2 in different groups
\* and gives them different color keys.
C8_DifferentGroupDifferentColor ==
    C8_Table =>
        /\ reaction_groups["R1"] # reaction_groups["R2"]
        /\ ColorOf("R1") # ColorOf("R2")

C8_Witness ==
    /\ C8_Table
    /\ df[1].id = "R1"
    /\ result.op = "get_color_for_reaction"
    /\ result.a = <<"R2">>
    /\ result.color = Set1[2]

\* A is the reverse of B: A's reactants are B's products and A's products are
\* B's reactants, none of them empty.
Reverses(A, B) ==
    /\ ReactantPhases(RowOfId(A)) # {}
    /\ ProductPhases(RowOfId(A)) # {}
    /\ ReactantPhases(RowOfId(A)) = ProductPhases(RowOfId(B))
    /\ ProductPhases(RowOfId(A)) = ReactantPhases(RowOfId(B))

\* C9: after grouping with method "and", a reaction and its reverse have the
\* same group id, whatever else the table holds and in whatever order.
C9_Reversibility ==
    (Ready /\ group_method = "and") =>
        \A A \in TableIds, B \in TableIds :
            Reverses(A, B) => reaction_groups[A] = reaction_groups[B]

\* A reaction that follows, two rows later, its reverse.
C9_Witness ==
    /\ Ready
    /\ group_method = "and"
    /\ Len(df) = 3
    /\ df[1].id # df[3].id
    /\ df[2].id \notin {df[1].id, df[3].id}
    /\ Reverses(df[3].id, df[1].id)
    /\ reaction_groups[df[1].id] = reaction_groups[df[3].id]

\* C10: after the groups are built every reaction id of the table has one
\* group id, and the group ids in use are exactly 0 .. k-1.
C10_DenseGroups ==
    Ready =>
        /\ DOMAIN reaction_groups = TableIds
        /\ GroupsInUse = 0..(Cardinality(GroupsInUse) - 1)

\* Two reactions that share a phase ended in different groups: a later match
\* took over an id grouped earlier.
C10_Witness ==
    /\ Ready
    /\ group_method = "or"
    /\ Cardinality(GroupsInUse) = 2
    /\ \E x \in TableIds, y \in TableIds :
          /\ reaction_groups[x] # reaction_groups[y]
          /\ ReactantPhases(RowOfId(x)) \cap ReactantPhases(RowOfId(y)) # {}


\* C11: after the groups are built with a method, any two reactions that match
\* each other under that method have the same group id.
C11_MatchingShareGroup ==
    Ready =>
        \A x \in TableIds, y \in TableIds :
            MatchEachOther(x, y, group_method) =>
                reaction_groups[x] = reaction_groups[y]


\* C12: a reaction whose reactant and product phases occur, on either side, in
\* no other reaction is the only member of its group.
C12_IsolatedIsAlone ==
    Ready =>
        \A x \in TableIds :
            Isolated(x) =>
                \A y \in TableIds \ {x} : reaction_groups[y] # reaction_groups[x]

\* Three reactions: an isolated one with phases on both sides, grouped by the
\* first loop, and an isolated one with an empty side, grouped by the second.
C12_Witness ==
    /\ Ready
    /\ Cardinality(TableIds) = 3
    /\ \E x \in TableIds, y \in TableIds :
          /\ Isolated(x)
          /\ ReactantPhases(RowOfId(x)) # {}
          /\ ProductPhases(RowOfId(x)) # {}
          /\ Isolated(y)
          /\ ReactantPhases(RowOfId(y)) # {}
          /\ ProductPhases(RowOfId(y)) = {}


\* C13: when construction completes, each group has exactly one color, the
\* color of group g being palette[i mod len(palette)] with i the rank of g
\* among the group ids in ascending order; and at all times two reactions of
\* the same group get the same color from get_color_for_reaction.
C13_ColorByRank ==
    /\ [][(pc = "new" /\ pc' = "ready") => ColorsByRank']_vars
    /\ [](Ready =>
            \A x \in TableIds, y \in TableIds :
                reaction_groups[x] = reaction_groups[y] => ColorOf(x) = ColorOf(y))

\* Three groups and a palette of two colors: the third group's color is the
\* first group's, and it is returned for a reaction of the third group.
C13_Witness ==
    /\ Ready
    /\ color_palette = "Bluered"
    /\ group_method = "and"
    /\ GroupsInUse = {0, 1, 2}
    /\ ColorsByRank
    /\ result.op = "get_color_for_reaction"
    /\ result.a[1] \in TableIds
    /\ reaction_groups[result.a[1]] = 2
    /\ result.color = Bluered[1]


\* C14: get_color_for_reaction returns "#000000" for an id that the current
\* grouping does not hold, and raises nothing; get_colors_for_filtered_df
\* gives a row with such an id the group -1 and the color "#000000".
C14_UnknownIdSentinel ==
    /\ (result.op = "get_color_for_reaction" /\ result.a[1] \notin DOMAIN reaction_groups)
            => result.color = BLACK
    /\ result.op = "get_colors_for_filtered_df" =>
            \A i \in DOMAIN result.a :
                result.a[i] \notin DOMAIN reaction_groups =>
                    /\ result.lists[i].rxn_group = -1
                    /\ result.lists[i].rxn_color_key = BLACK

\* A frame of two rows annotated: a grouped reaction, which gets its group's
\* color, and a row whose id the grouping does not hold.
C14_Witness ==
    /\ result.op = "get_colors_for_filtered_df"
    /\ Len(result.a) = 2
    /\ result.a[1] \in DOMAIN reaction_groups
    /\ result.lists[1].rxn_color_key = Set1[1]
    /\ result.a[2] \notin DOMAIN reaction_groups
    /\ result.lists[2].rxn_group = -1


C16_AnnotateCopies ==
    [][(result.op = "none" /\ result'.op = "get_colors_for_filtered_df") =>
          /\ DOMAIN result'.lists = DOMAIN result'.a
          /\ \A i \in DOMAIN result'.a :
                LET row == result'.lists[i]
                IN  /\ row.id = result'.a[i]
                    /\ row.rxn_group = Get(reaction_groups, row.id, -1)
                    /\ row.rxn_color_key =
                          IF row.rxn_group = -1 THEN BLACK
                          ELSE Get(color_map, IntStr(row.rxn_group), BLACK)
          /\ result'.original => result'.a = IdColumn(df)
          /\ result'.b = <<>>
          /\ UNCHANGED <<df, columns, reactant_lookup, product_lookup,
                         reaction_groups, color_map>>]_vars

\* The original table, of three rows in two groups, annotated.
C16_Witness ==
    /\ result.op = "get_colors_for_filtered_df"
    /\ result.original
    /\ Len(result.lists) = 3
    /\ result.lists[1].rxn_color_key = Set1[1]
    /\ result.lists[2].rxn_color_key = Set1[1]
    /\ result.lists[3].rxn_color_key = Set1[2]
    /\ columns = Range(required_cols)


\* Neither index, grouping nor color map holds anything.
NothingPopulated ==
    /\ DOMAIN reactant_lookup = {}
    /\ DOMAIN product_lookup = {}
    /\ DOMAIN reaction_groups = {}
    /\ DOMAIN color_map = {}

\* C17: construction fails exactly when a required column is missing or the
\* table is empty while allow_empty is false; when it fails, the error is
\* raised before either index, the grouping or the color map is populated;
\* with allow_empty true an empty table yields empty indices, grouping and
\* color map.
C17_ConstructionFailure ==
    pc # "new" =>
        /\ pc # "ready" <=>
                (MissingColumns(columns) # <<>> \/ (df = <<>> /\ ~allow_empty))
        /\ pc # "ready" => NothingPopulated
        /\ (pc = "ready" /\ df = <<>>) => NothingPopulated

\* C18: the source table is never destructively mutated: construction and
\* every later call leave every cell of the table handed to the constructor
\* unchanged, rows whose reactants or products value is not a list included.
C18_SourceTableUnchanged == [][df' = df /\ columns' = columns]_vars


\* The list is in ascending order and holds no string twice.
StrictlySorted(l) == \A i \in DOMAIN l, j \in DOMAIN l : i < j => StrLess(l[i], l[j])

\* The list holds no coefficient: no string of it is empty, starts with a
\* digit, or starts or ends with whitespace.
CoefficientFree(l) ==
    \A i \in DOMAIN l :
        /\ l[i] # <<>>
        /\ Head(l[i]) \notin Digits \cup Whitespace
        /\ l[i][Len(l[i])] \notin Whitespace

\* C19: get_phases_for_ids(ids) returns two sorted, duplicate-free,
\* coefficient-stripped lists that hold exactly the reactant phases and
\* exactly the product phases of the rows whose id is in ids: a phase is in
\* the reactant list exactly when the reactant index maps it to an id of ids,
\* and likewise for products; for empty ids both lists are empty.
C19_PhasesForIds ==
    result.op = "get_phases_for_ids" =>
        LET ids == Range(result.a)
            unique_reactants == result.lists[1]
            unique_products == result.lists[2]
        IN  /\ StrictlySorted(unique_reactants) /\ CoefficientFree(unique_reactants)
            /\ StrictlySorted(unique_products) /\ CoefficientFree(unique_products)
            /\ Range(unique_reactants) =
                  UNION {ReactantPhases(df[i]) : i \in RowsOfIds(ids)}
            /\ Range(unique_products) =
                  UNION {ProductPhases(df[i]) : i \in RowsOfIds(ids)}
            /\ Range(unique_reactants) =
                  {p \in DOMAIN reactant_lookup : reactant_lookup[p] \cap ids # {}}
            /\ Range(unique_products) =
                  {p \in DOMAIN product_lookup : product_lookup[p] \cap ids # {}}
            /\ result.a = <<>> => (unique_reactants = <<>> /\ unique_products = <<>>)

\* The phases of R1 and R5: ky, written with and without a coefficient, comes
\* once, before sil.
C19_Witness ==
    /\ result.op = "get_phases_for_ids"
    /\ result.a = <<"R5", "R1">>
    /\ TableIds = {"R1", "R5"}
    /\ result.lists = << <<ky, sil>>, <<and_, sil>> >>


AllIn(str, cls) == \A k \in DOMAIN str : str[k] \in cls

\* o is what is left of the string t when a leading run of digits with the
\* whitespace after it, then leading and trailing whitespace, are taken away:
\* t is digits, whitespace, o, whitespace, the run of digits being the longest.
IsStrippedForm(t, o) ==
    \E a \in 0..Len(t), b \in 0..Len(t), c \in 0..Len(t) :
        /\ a <= b /\ b <= c
        /\ AllIn(SubSeq(t, 1, a), Digits)
        /\ AllIn(SubSeq(t, a + 1, b), Whitespace)
        /\ o = SubSeq(t, b + 1, c)
        /\ AllIn(SubSeq(t, c + 1, Len(t)), Whitespace)
        /\ o # <<>> => /\ Head(o) \notin Whitespace
                       /\ o[Len(o)] \notin Whitespace
                       /\ a = b => Head(o) \notin Digits

\* o is what is left of t when only the leading run of digits and the
\* whitespace after it are taken away.
IsCoefficientFreeForm(t, o) ==
    \E a \in 0..Len(t), b \in 0..Len(t) :
        /\ a <= b
        /\ AllIn(SubSeq(t, 1, a), Digits)
        /\ AllIn(SubSeq(t, a + 1, b), Whitespace)
        /\ a = 0 => b = 0
        /\ o = SubSeq(t, b + 1, Len(t))
        /\ o # <<>> => /\ (a > 0 => Head(o) \notin Whitespace)
                       /\ (a = b => Head(o) \notin Digits)

\* out holds, in input order and with duplicates, the form Form gives each
\* string token of tokens, the empty ones left out.
KeepsForms(tokens, out, Form(_, _)) ==
    LET kept == {k \in DOMAIN tokens :
                    tokens[k].str /\ ~Form(tokens[k].chars, <<>>)}
        Position(k) == Cardinality({j \in kept : j <= k})
    IN  /\ Len(out) = Cardinality(kept)
        /\ \A k \in kept : Form(tokens[k].chars, out[Position(k)])

ExampleTokens == <<Str(c2h2o), Str(h2o), Str(c10sio2), Str(<<>>)>>

\* C20 as stated: strip_coefficients removes from each string token its
\* leading run of digits and the whitespace that follows, drops the tokens
\* that are not strings or are empty after that, and returns the rest in input
\* order with duplicates kept; ["2h2o", "h2o", "10sio2", ""] gives
\* ["h2o", "h2o", "sio2"].
C20_StripsCoefficientOnly ==
    result.op = "strip_coefficients" =>
        /\ KeepsForms(result.a, result.lists, IsCoefficientFreeForm)
        /\ result.a = ExampleTokens => result.lists = <<h2o, h2o, sio2>>

\* C20 amended: strip_coefficients removes from each string token its leading
\* run of digits and the whitespace that follows, and then the whitespace at
\* both ends of what is left, also when the token has no leading digit; it
\* drops the tokens that are not strings or are empty after that, and returns
\* the rest in input order with duplicates kept; ["2h2o", "h2o", "10sio2", ""]
\* gives ["h2o", "h2o", "sio2"].
C20_StripsCoefficientAndWhitespace ==
    result.op = "strip_coefficients" =>
        /\ KeepsForms(result.a, result.lists, IsStrippedForm)
        /\ result.a = ExampleTokens => result.lists = <<h2o, h2o, sio2>>

\* The example of the claim, computed.
C20_Witness ==
    /\ result.op = "strip_coefficients"
    /\ result.a = ExampleTokens
    /\ result.lists = <<h2o, h2o, sio2>>


\* The table with the entries that are not strings taken out of every list.
WellFormed(cell) == [cell EXCEPT !.items = SelectSeq(@, LAMBDA t : t.str)]

WithoutMalformed(d) ==
    [i \in DOMAIN d |->
        [d[i] EXCEPT !.reactants = WellFormed(@), !.products = WellFormed(@)]]

HoldsMalformed(r) ==
    \E t \in Range(r.reactants.items) \cup Range(r.products.items) : ~t.str

\* What the call recorded in res returns on table d with the indices rl, pl.
FrameOn(d, rl, pl, res) ==
    CASE res.op = "filter_by_ids" -> filter_by_ids(d, res.a)
      [] res.op = "filter_by_reactants" -> filter_by_reactants(d, rl, res.a)
      [] res.op = "filter_by_products" -> filter_by_products(d, pl, res.b)
      [] res.op = "filter_by_reactants_and_products" ->
            filter_by_reactants_and_products(d, rl, pl, res.a, res.b, res.method)
      [] res.op = "filter_by_type" -> filter_by_type(d, res.a)

\* C21: entries of a reactant or product list that are not strings never make
\* an operation fail: the index build, the grouping, every filter and
\* get_phases_for_ids complete and give what they give on the table without
\* those entries.
C21_MalformedTokensSkipped ==
    /\ pc # "IndexError"
    /\ Ready =>
          LET clean == WithoutMalformed(df)
              pre == precompute_phase_info(clean)
          IN  /\ reactant_lookup = pre.reactant_lookup
              /\ product_lookup = pre.product_lookup
              /\ reaction_groups =
                    build_reaction_groups(clean, pre.reactant_lookup,
                                          pre.product_lookup, group_method)
              /\ result.op = "get_phases_for_ids" =>
                    result.lists = get_phases_for_ids(clean, result.a)
              /\ result.op \in {"filter_by_ids", "filter_by_reactants",
                                "filter_by_products", "filter_by_type",
                                "filter_by_reactants_and_products"} =>
                    LET frame == FrameOn(clean, pre.reactant_lookup,
                                         pre.product_lookup, result)
                    IN  result.rows = frame.rows /\ result.original = frame.original

\* A filter by reactants has returned a row whose reactant list holds an entry
\* that is not a string.
C21_Witness ==
    /\ Ready
    /\ result.op = "filter_by_reactants"
    /\ \E i \in result.rows : HoldsMalformed(df[i])


\* The grouping and the color map of a fresh processor built on the table and
\* grouped with the method.
FreshGroups(method) ==
    build_reaction_groups(df, reactant_lookup, product_lookup, method)

FreshColors(method) == build_color_map(FreshGroups(method))

\* C22: a change of the combination method triggers a full rebuild: once the
\* groups are rebuilt with a method, the group and the color returned for
\* every reaction id are those of a fresh processor built on the same table
\* and grouped with that method, and no id of the table gets the color
\* "#000000" from a color map left behind.
C22_MethodChangeRebuildsAll ==
    Ready =>
        \A x \in TableIds :
            /\ reaction_groups[x] = FreshGroups(group_method)[x]
            /\ ColorOf(x) = get_color_for_reaction(FreshGroups(group_method),
                                                   FreshColors(group_method), x)
            /\ ColorOf(x) # BLACK


\* The index holds the pair (p, id) exactly when p is in the stripped list,
\* on that side, of a record with that id; no key has an empty set of ids.
IndexIsExact(lookup, Phases(_)) ==
    /\ DOMAIN lookup = UNION {Phases(df[i]) : i \in DOMAIN df}
    /\ \A p \in DOMAIN lookup :
          /\ lookup[p] # {}
          /\ \A x \in TableIds : x \in lookup[p] <=> p \in Phases(RowOfId(x))
          /\ lookup[p] \subseteq TableIds

\* C23: after the build, and after any sequence of operations, a reaction id
\* is in reactant_lookup[p] exactly when p occurs in that record's
\* coefficient-stripped reactant list, and in product_lookup[p] exactly when p
\* occurs in its stripped product list; the indices hold no other pair and no
\* key with an empty set of ids, and building them again on the processor's
\* table gives the same indices.
C23_IndexInvariant ==
    Ready =>
        /\ IndexIsExact(reactant_lookup, ReactantPhases)
        /\ IndexIsExact(product_lookup, ProductPhases)
        /\ ~precompute_phase_info(df).raised
        /\ precompute_phase_info(df).reactant_lookup = reactant_lookup
        /\ precompute_phase_info(df).product_lookup = product_lookup

\* Two reactions, one of them with a coefficient before the phase, under one
\* key of the reactant index, seen after a regrouping and a color query.
C23_Witness ==
    /\ Ready
    /\ group_method = "or"
    /\ result.op = "get_color_for_reaction"
    /\ ky \in DOMAIN reactant_lookup
    /\ reactant_lookup[ky] = {"R1", "R5"}
    /\ sil \in DOMAIN product_lookup


\* C24: with both lists non-empty and method "and", when no reaction has a
\* reactant among the requested reactants, or none has a product among the
\* requested products, the combined filter returns an empty result, whatever
\* the reverse-direction sets hold.
C24_ShortCircuit ==
    (Combined /\ result.a # <<>> /\ result.b # <<>> /\ result.method = "and"
        /\ (IdsWithReactantIn(Range(result.a)) = {}
               \/ IdsWithProductIn(Range(result.b)) = {}))
        => (result.rows = {} /\ ~result.original)

\* An empty result although a reaction matches in the reverse direction.
C24_Witness ==
    /\ Combined
    /\ result.method = "and"
    /\ result.a # <<>>
    /\ result.b # <<>>
    /\ IdsWithReactantIn(Range(result.a)) = {}
    /\ IdsWithProductIn(Range(result.a)) \cap IdsWithReactantIn(Range(result.b)) # {}
    /\ result.rows = {}


\* The reaction's stripped reactant list or its stripped product list is empty.
EmptySided(x) ==
    ReactantPhases(RowOfId(x)) = {} \/ ProductPhases(RowOfId(x)) = {}

Alone(x) == \A y \in TableIds \ {x} : reaction_groups[y] # reaction_groups[x]

\* C25 as stated: a reaction whose stripped reactant list or stripped product
\* list is empty ends as the only member of its own group, for both methods
\* and whatever other reactions the table holds.
C25_EmptySidedIsAlone ==
    Ready => \A x \in TableIds : EmptySided(x) => Alone(x)

\* C25 amended: a reaction whose stripped reactant list or stripped product
\* list is empty founds no group in the main sweep; under "and" it ends as the
\* only member of its own group; under "or" it ends alone unless the main
\* sweep put it into the group of a reaction, with reactants and products,
\* that shares a phase with it.
C25_EmptySidedAloneUnlessMatched ==
    Ready =>
        \A x \in TableIds :
            EmptySided(x) =>
                /\ group_method = "and" => Alone(x)
                /\ ~Alone(x) =>
                      \E y \in TableIds \ {x} :
                          /\ reaction_groups[y] = reaction_groups[x]
                          /\ ~EmptySided(y)
                          /\ MatchEachOther(x, y, "or")

\* Under "or" a reaction without products is in the group of a reaction that
\* has its reactant, and another reaction with an empty side is alone.
C25_Witness ==
    /\ Ready
    /\ group_method = "or"
    /\ \E x \in TableIds, y \in TableIds :
          /\ EmptySided(x) /\ ~Alone(x)
          /\ EmptySided(y) /\ Alone(y)


\* The stripped lists of the first row with the id, as the grouping reads them.
StrippedReactants(x) == strip_coefficients(FirstRow(df, x).reactants.items)
StrippedProducts(x) == strip_coefficients(FirstRow(df, x).products.items)

\* The matching set the grouping computes for reaction x.
GroupMatchingSet(x, method) ==
    GroupMatchingIds(get_ids_for_phases(StrippedReactants(x), reactant_lookup),
                     get_ids_for_phases(StrippedProducts(x), product_lookup),
                     get_ids_for_phases(StrippedReactants(x), product_lookup),
                     get_ids_for_phases(StrippedProducts(x), reactant_lookup),
                     method)

\* C26: the grouping mirrors the combined filter: for a reaction X with
\* non-empty stripped reactants and products, and for each method, the rows
\* that filter_by_reactants_and_products(reactants of X, products of X, method)
\* returns are those whose id is in the matching set the grouping computes for
\* X, and X is one of them.
C26_GroupingMirrorsFilter ==
    Combined =>
        \A x \in TableIds :
            (~EmptySided(x) /\ result.a = StrippedReactants(x)
                            /\ result.b = StrippedProducts(x))
                => /\ {df[i].id : i \in result.rows} = GroupMatchingSet(x, result.method)
                   /\ result.rows = RowsOfIds(GroupMatchingSet(x, result.method))
                   /\ x \in GroupMatchingSet(x, result.method)

\* The filter called with the lists of the table's first reaction under "and"
\* returns it together with a reaction that matches in the reverse direction
\* only.
C26_Witness ==
    /\ Combined
    /\ result.method = "and"
    /\ Len(df) = 2
    /\ ~EmptySided(df[1].id)
    /\ result.a = StrippedReactants(df[1].id)
    /\ result.b = StrippedProducts(df[1].id)
    /\ result.rows = {1, 2}
    /\ df[2].id \notin IdsWithReactantIn(Range(result.a))


\* C27: a reader never observes a partially rebuilt structure: whenever a
\* query can run, the indices and the grouping are complete, those of the
\* table and the current method, and the grouping agrees with the color map:
\* the color map holds a color for each group in use.
C27_NoPartialRebuild ==
    Ready =>
        /\ reactant_lookup = precompute_phase_info(df).reactant_lookup
        /\ product_lookup = precompute_phase_info(df).product_lookup
        /\ reaction_groups = FreshGroups(group_method)
        /\ {IntStr(g) : g \in GroupsInUse} \subseteq DOMAIN color_map


\* A string token of the table is empty after coefficient stripping.
HoldsEmptyAfterStrip(d) ==
    \E i \in DOMAIN d :
        \E t \in Range(d[i].reactants.items) \cup Range(d[i].products.items) :
            t.str /\ strip_coefficients(<<t>>) = <<>>

\* C28: the index build completes for a table in which a reactant or product
\* token is a string that is empty after coefficient stripping: the token is
\* dropped and gives no index entry, and the other tokens are indexed as
\* usual.
C28_EmptyAfterStripDropped ==
    (pc # "new" /\ pc # "ValueError" /\ HoldsEmptyAfterStrip(df)) =>
        /\ pc = "ready"
        /\ IndexIsExact(reactant_lookup, ReactantPhases)
        /\ IndexIsExact(product_lookup, ProductPhases)


----------------------------------------------------------------------------
(* Ingestion: the preprocessors write one yml entry, load_entry reads it into
   a table, and the table is handed to the processor's constructor *)

\* Most entries and most data points of a source file.
MaxEntries == 2
MaxPoints == 2

\* _process_polynomial's default number of steps.
nsteps == 100

sill == <<"s", "i", "l", "l">>
wad == <<"w", "a", "d">>
wd == <<"w", "d">>
wa == <<"w", "a">>
wds == <<"w", "d", "s">>
melt == <<"m", "e", "l", "t">>
Ky == <<"K", "y">>
c2sill == <<"2", "s", "i", "l", "l">>

\* _abbrev_map(), the same in both preprocessors.
abbrev_map == [k \in {sil, sill, wd, wa, wds} |-> IF k \in {sil, sill} THEN sil ELSE wad]

\* str.lower() on the letters the entries hold.
LowerChar(c) == IF c = "K" THEN "k" ELSE IF c = "S" THEN "s" ELSE c

LowerStr(s) == [i \in DOMAIN s |-> LowerChar(s[i])]

LowerAll(phases) == [i \in DOMAIN phases |-> LowerStr(phases[i])]

\* [abbrev_map.get(p, p) for p in phases]
normalize_abbreviations(phases) ==
    [i \in DOMAIN phases |-> Get(abbrev_map, phases[i], phases[i])]

\* The substitution of _normalize_rxn_string on one word of the reaction: the
\* leading digits are kept and the rest is looked up in the map.
NormalizeWord(w) ==
    LET rest == DropWhileIn(w, Digits)
        coeff == SubSeq(w, 1, Len(w) - Len(rest))
    IN  coeff \o Get(abbrev_map, rest, rest)

NormalizeWords(phases) == [i \in DOMAIN phases |-> NormalizeWord(phases[i])]

\* t in s, for strings.
Contains(s, t) == \E i \in 1..(Len(s) - Len(t) + 1) : SubSeq(s, i, i + Len(t) - 1) = t

\* The numbers of an entry are kept by count only: every list of a data block
\* has one value per data point.
Zeros(n) == [i \in 1..n |-> 0]

MidHalf(mid) == [mid |-> mid, half_range |-> Zeros(Len(mid))]

\* The data block of _process_polynomial and of _parse_data_lines, rounded.
DataBlock(ln_K_mid) ==
    [ln_K |-> MidHalf(ln_K_mid), x_CO2 |-> MidHalf(Zeros(Len(ln_K_mid))),
     P |-> MidHalf(Zeros(Len(ln_K_mid))), T |-> MidHalf(Zeros(Len(ln_K_mid)))]

\* _build_metadata: both preprocessors write ref.short_cite.
Metadata == [ref |-> [short_cite |-> "short_cite"]]

\* A reaction string, kept as its two sides.
Joined(reactants, products) == [lhs |-> reactants, rhs |-> products]

\* The phases a source entry names.
CsvPhases == {Ky, sill, melt}
Hp11Phases == {Ky, c2sill, and_}

\* CSVPreprocessor._process_entry on a row whose rxn column is empty: the
\* reactant and product columns that are filled, the formula column, the id.
CSVEntry(id, reactant_cols, product_cols, formula) ==
    LET products == normalize_abbreviations(LowerAll(product_cols))
        given == normalize_abbreviations(LowerAll(reactant_cols))
        reactants ==
            IF given = <<>> /\ (\E i \in DOMAIN products : Contains(products[i], melt))
                            /\ formula.str
            THEN <<LowerStr(formula.chars)>>
            ELSE given
    IN  [name |-> <<"jimmy", id>>,
         source |-> "jimmy",
         type |-> PHASE_BOUNDARY,
         plot_type |-> "curve",
         rxn |-> Joined(reactants, products),
         reactants |-> List(reactants),
         products |-> List(products),
         data |-> DataBlock(Zeros(nsteps)),
         metadata |-> Metadata]

\* HP11DBPreprocessor._process_entry on an entry with at least one data line.
HP11Entry(index, lhs, rhs, ln_K_mid) ==
    [name |-> <<"hp11", index>>,
     source |-> "hp11",
     type |-> IF \A i \in DOMAIN ln_K_mid : ln_K_mid[i] = 0
              THEN PHASE_BOUNDARY ELSE RXN_CALIBRATION,
     plot_type |-> "point",
     rxn |-> Joined(NormalizeWords(LowerAll(lhs)), NormalizeWords(LowerAll(rhs))),
     reactants |-> List(NormalizeWords(LowerAll(lhs))),
     products |-> List(NormalizeWords(LowerAll(rhs))),
     data |-> DataBlock(ln_K_mid),
     metadata |-> Metadata]

\* The keys load_entry reads from the parsed yml, and the columns of its rows.
HeaderKeys == {"data", "metadata"}
RowKeys == {"id", "type", "rxn", "products", "reactants"}
LoaderKeys == HeaderKeys \cup RowKeys

LoaderColumns ==
    {"id", "type", "rxn", "products", "reactants", "ln_K_mid", "ln_K_half_range",
     "x_CO2_mid", "x_CO2_half_range", "P", "P_half_range", "T", "T_half_range",
     "ref"}

\* _convert_to_str_list on a list of strings or on one string.
convert_to_str_list(data) == List([i \in DOMAIN data.items |-> Str(LowerStr(data.items[i]))])

\* CSVPreprocessor.preprocess writes the entry of one row.
CSVPreprocess ==
    /\ pc = "raw"
    /\ \E id \in 1..MaxEntries, reactant_cols \in Lists(CsvPhases),
          product_cols \in Lists(CsvPhases), formula \in {NaN, Str(h2o)} :
          yml' = CSVEntry(id, reactant_cols, product_cols, formula)
    /\ pc' = "preprocessed"
    /\ UNCHANGED <<df, columns, args, rv, reactant_lookup, product_lookup,
                   reaction_groups, color_map, group_method, result>>

\* HP11DBPreprocessor.preprocess writes one entry; without a data line
\* _parse_data_lines returns lists where _round_data calls .items().
HP11Preprocess ==
    /\ pc = "raw"
    /\ \E index \in 1..MaxEntries, lhs \in Lists(Hp11Phases) \ {<<>>},
          rhs \in Lists(Hp11Phases) \ {<<>>}, n \in 0..MaxPoints :
          \E ln_K_mid \in [1..n -> {0, 1}] :
             IF n = 0
             THEN pc' = "AttributeError" /\ yml' = yml
             ELSE pc' = "preprocessed" /\ yml' = HP11Entry(index, lhs, rhs, ln_K_mid)
    /\ UNCHANGED <<df, columns, args, rv, reactant_lookup, product_lookup,
                   reaction_groups, color_map, group_method, result>>

\* A yml file of the loader's directory that carries the id key: an entry of
\* the preprocessors' shape with the id added, its phases a list or one string.
ProvideEntry ==
    /\ pc = "raw"
    /\ \E type \in {PHASE_BOUNDARY, RXN_CALIBRATION},
          reactants \in {List(<<Ky>>), [list |-> FALSE, items |-> <<sil>>]},
          products \in {List(<<and_>>), List(<<c2sill, ky>>)},
          n \in 0..MaxPoints :
          yml' = [id |-> "jimmy-001",
                  name |-> <<"jimmy", 1>>,
                  source |-> "jimmy",
                  type |-> type,
                  plot_type |-> "curve",
                  rxn |-> Joined(reactants.items, products.items),
                  reactants |-> reactants,
                  products |-> products,
                  data |-> DataBlock(Zeros(n)),
                  metadata |-> Metadata]
    /\ pc' = "provided"
    /\ UNCHANGED <<df, columns, args, rv, reactant_lookup, product_lookup,
                   reaction_groups, color_map, group_method, result>>

\* load_entry: a key the yml lacks raises KeyError; the row keys are read once
\* per data point, so an entry without data points yields a table without
\* columns.
LoadEntry ==
    /\ pc \in {"preprocessed", "provided"}
    /\ IF ~(HeaderKeys \subseteq DOMAIN yml)
       THEN pc' = "KeyError" /\ UNCHANGED <<df, columns>>
       ELSE LET n_rows == Len(yml["data"]["ln_K"]["mid"])
            IN  IF n_rows > 0 /\ ~(RowKeys \subseteq DOMAIN yml)
                THEN pc' = "KeyError" /\ UNCHANGED <<df, columns>>
                ELSE /\ pc' = "new"
                     /\ df' = [i \in 1..n_rows |->
                                 Row(yml["id"], convert_to_str_list(yml["reactants"]),
                                     convert_to_str_list(yml["products"]), yml["type"])]
                     /\ columns' = IF n_rows = 0 THEN {} ELSE LoaderColumns
    /\ UNCHANGED <<args, yml, rv, reactant_lookup, product_lookup,
                   reaction_groups, color_map, group_method, result>>

InitIngest ==
    /\ df = <<>>
    /\ columns = {}
    /\ allow_empty = FALSE
    /\ color_palette = "Set1"
    /\ pc = "raw"
    /\ reactant_lookup = EmptyDict
    /\ product_lookup = EmptyDict
    /\ reaction_groups = EmptyDict
    /\ color_map = EmptyDict
    /\ group_method = ""
    /\ result = NoResult
    /\ yml = EmptyDict
    /\ ServerStart

NextIngest ==
    \/ CSVPreprocess
    \/ HP11Preprocess
    \/ ProvideEntry
    \/ LoadEntry
    \/ PostInit

SpecIngest == InitIngest /\ [][NextIngest]_vars

----------------------------------------------------------------------------
(* C29 *)

\* C29: the ingestion pipeline is schema-consistent end to end: an entry
\* written by a preprocessor carries every key load_entry reads, loading never
\* raises KeyError, and a table made by the loader carries every column the
\* constructor requires, so construction never raises for a missing column.
C29_SchemaConsistent ==
    /\ pc = "preprocessed" => LoaderKeys \subseteq DOMAIN yml
    /\ pc # "KeyError"
    /\ pc = "new" /\ df # <<>> => MissingColumns(columns) = <<>>
    /\ ~(pc = "ValueError" /\ df # <<>>)

\* The second half on its own: a loaded table with rows constructs.
C29_LoadedConstructs == ~(pc = "ValueError" /\ df # <<>>)


----------------------------------------------------------------------------
(* The app's server function: reactive values and the handlers that set them *)

\* Most rows of the table widget.
MaxTable == 2

\* What the processor and the browser hand to the handlers: the phase groups,
\* the phases of the checkboxes, the unique ids of the table widget's rows.
GroupNames == {"group1"}
DisplayModes == {"name", "abbreviation", "formula"}
AppPhases == {"ky", "and"}
TableUniqueIds == {"jimmy-001", "hp11-001"}

\* rc_get_table_data: one row per unique id, no row when no phase is selected.
TableData ==
    {t \in UNION {[1..k -> TableUniqueIds] : k \in 0..MaxTable} :
        \A i, j \in DOMAIN t : t[i] = t[j] => i = j}

\* The tuples input.table_selected_rows() holds: positions in ascending order,
\* some of them past the end of the current table.
IndexTuples == {Sorted(S) : S \in SUBSET (0..MaxTable)}

\* Mutant: the cycle skips "and".
next_similar_reactions_two_state(mode) ==
    IF mode = False THEN "or" ELSE False

\* The if/elif/else of the toggle_similar_reactions handler.
next_similar_reactions(mode) ==
    IF mode = False THEN "or"
    ELSE IF mode = "or" THEN "and"
    ELSE False

\* The if/elif/else of the toggle_data_type handler.
next_data_type(mode) ==
    IF mode = "all" THEN "curves"
    ELSE IF mode = "curves" THEN "points"
    ELSE "all"

\* _re_initialize_once with _re_initialize_group_defaults.
InitializeOnce ==
    /\ ~rv_ui_initialized
    /\ rv_group_display_modes' =
          [g \in GroupNames \cup DOMAIN rv_group_display_modes |->
              Get(rv_group_display_modes, g, "name")]
    /\ rv_ui_initialized' = TRUE
    /\ UNCHANGED <<df, columns, args, yml, pc, reactant_lookup, product_lookup,
                   reaction_groups, color_map, group_method, result,
                   rv_toggle_data_type, rv_toggle_similar_reactions,
                   rv_selected_table_rows, rv_selected_row_indices,
                   rv_selected_phase_abbrevs>>

\* _handle_display_mode_changes; a radio button that is not rendered yet
\* reads None.
HandleDisplayModeChanges ==
    /\ rv_ui_initialized
    /\ \E radios \in [GroupNames -> DisplayModes \cup {"None"}] :
          rv_group_display_modes' =
              [g \in GroupNames \cup DOMAIN rv_group_display_modes |->
                  IF g \in GroupNames /\ radios[g] # "None"
                  THEN radios[g]
                  ELSE rv_group_display_modes[g]]
    /\ UNCHANGED <<df, columns, args, yml, pc, reactant_lookup, product_lookup,
                   reaction_groups, color_map, group_method, result,
                   rv_toggle_data_type, rv_toggle_similar_reactions,
                   rv_selected_table_rows, rv_selected_row_indices,
                   rv_selected_phase_abbrevs, rv_ui_initialized>>

\* _handle_phase_selections: the abbreviations of the ticked boxes.
HandlePhaseSelections ==
    /\ rv_ui_initialized
    /\ \E newly_selected_phase_abbrevs \in SUBSET AppPhases :
          rv_selected_phase_abbrevs' =
              IF newly_selected_phase_abbrevs # rv_selected_phase_abbrevs
              THEN newly_selected_phase_abbrevs
              ELSE rv_selected_phase_abbrevs
    /\ UNCHANGED <<df, columns, args, yml, pc, reactant_lookup, product_lookup,
                   reaction_groups, color_map, group_method, result,
                   rv_toggle_data_type, rv_toggle_similar_reactions,
                   rv_selected_table_rows, rv_selected_row_indices,
                   rv_group_display_modes, rv_ui_initialized>>

\* The handler of input.toggle_similar_reactions.
ToggleSimilarReactions ==
    /\ rv_toggle_similar_reactions' = next_similar_reactions(rv_toggle_similar_reactions)
    /\ UNCHANGED <<df, columns, args, yml, pc, reactant_lookup, product_lookup,
                   reaction_groups, color_map, group_method, result,
                   rv_toggle_data_type, rv_selected_table_rows,
                   rv_selected_row_indices, rv_selected_phase_abbrevs,
                   rv_group_display_modes, rv_ui_initialized>>

\* The handler of input.toggle_data_type.
ToggleDataType ==
    /\ rv_toggle_data_type' = next_data_type(rv_toggle_data_type)
    /\ UNCHANGED <<df, columns, args, yml, pc, reactant_lookup, product_lookup,
                   reaction_groups, color_map, group_method, result,
                   rv_toggle_similar_reactions, rv_selected_table_rows,
                   rv_selected_row_indices, rv_selected_phase_abbrevs,
                   rv_group_display_modes, rv_ui_initialized>>

\* The handler of input.clear_selection.
ClearSelection ==
    /\ rv_selected_table_rows' = <<>>
    /\ rv_selected_row_indices' = None
    /\ UNCHANGED <<df, columns, args, yml, pc, reactant_lookup, product_lookup,
                   reaction_groups, color_map, group_method, result,
                   rv_toggle_data_type, rv_toggle_similar_reactions,
                   rv_selected_phase_abbrevs, rv_group_display_modes,
                   rv_ui_initialized>>

\* The handler of input.table_selected_rows: the ids of the selected positions
\* that the current table has.
TableSelectedRows ==
    /\ \E indices \in IndexTuples, current_table_df \in TableData :
          /\ rv_selected_phase_abbrevs = {} => current_table_df = <<>>
          /\ rv_selected_row_indices' = Indices(indices)
          /\ rv_selected_table_rows' =
                LET valid_indices == SelectSeq(indices, LAMBDA i : i < Len(current_table_df))
                IN  [k \in DOMAIN valid_indices |-> current_table_df[valid_indices[k] + 1]]
    /\ UNCHANGED <<df, columns, args, yml, pc, reactant_lookup, product_lookup,
                   reaction_groups, color_map, group_method, result,
                   rv_toggle_data_type, rv_toggle_similar_reactions,
                   rv_selected_phase_abbrevs, rv_group_display_modes,
                   rv_ui_initialized>>

\* The module constructs the processor before the server function runs.
InitApp ==
    /\ df = <<CHOOSE r \in RxnPool : r.id = "R1">>
    /\ columns = Range(required_cols)
    /\ allow_empty = FALSE
    /\ color_palette = "Set1"
    /\ pc = "ready"
    /\ reactant_lookup = precompute_phase_info(df).reactant_lookup
    /\ product_lookup = precompute_phase_info(df).product_lookup
    /\ reaction_groups = GroupsForColorMap(df, reactant_lookup, product_lookup, EmptyDict)
    /\ color_map = build_color_map(reaction_groups)
    /\ group_method = "and"
    /\ result = NoResult
    /\ yml = EmptyDict
    /\ ServerStart

NextApp ==
    \/ InitializeOnce
    \/ HandleDisplayModeChanges
    \/ HandlePhaseSelections
    \/ ToggleSimilarReactions
    \/ ToggleDataType
    \/ ClearSelection
    \/ TableSelectedRows

SpecApp == InitApp /\ [][NextApp]_vars

----------------------------------------------------------------------------
(* C30 *)

SimilarModes == {False, "or", "and"}

\* The cycle off -> "or" -> "and" -> off.
CycleStep(mode) == CASE mode = False -> "or" [] mode = "or" -> "and" [] mode = "and" -> False

OtherEvent ==
    ToggleDataType \/ ClearSelection \/ TableSelectedRows \/ HandlePhaseSelections

\* C30: the similar-reactions mode starts at off; it is always off, "or" or
\* "and"; a toggle_similar_reactions event moves it one step along the cycle
\* off -> "or" -> "and" -> off and three toggles in a row restore it; the
\* data-type toggle, clear selection, table selection and phase selection
\* leave it as it is, and so does every step that changes anything else.
C30_ModeCycle ==
    /\ rv_toggle_similar_reactions = False
    /\ [][ /\ rv_toggle_similar_reactions' \in SimilarModes
           /\ ToggleSimilarReactions =>
                 rv_toggle_similar_reactions' = CycleStep(rv_toggle_similar_reactions)
           /\ next_similar_reactions(next_similar_reactions(next_similar_reactions(
                 rv_toggle_similar_reactions))) = rv_toggle_similar_reactions
           /\ OtherEvent => UNCHANGED rv_toggle_similar_reactions
           /\ rv_toggle_similar_reactions' # rv_toggle_similar_reactions =>
                 UNCHANGED <<rv_toggle_data_type, rv_selected_table_rows,
                             rv_selected_row_indices, rv_selected_phase_abbrevs,
                             rv_group_display_modes, rv_ui_initialized>> ]_vars

\* Two toggles in, with the data type toggled and a table row selected.
C30_Witness ==
    /\ rv_toggle_similar_reactions = "and"
    /\ rv_toggle_data_type = "points"
    /\ rv_selected_table_rows # <<>>
    /\ rv_selected_phase_abbrevs # {}

====
